---- MODULE Spec2Model ----
(***************************************************************************)
(* A model of the MOSDAC portal tools: the crawler (scraper.py), the      *)
(* PostgreSQL indexer (indexer.py), the search endpoint (api.py) and the  *)
(* chatbot (chatbot.py).                                                   *)
(*                                                                         *)
(* Text is modelled as a sequence of one-character strings, so substring, *)
(* find and split are computed character by character as Python does.     *)
(* Relevance scores are kept in tenths (3.0 is 30) so they stay integers. *)
(***************************************************************************)
EXTENDS Integers, Sequences, FiniteSets, TLC

VARIABLES
    \* ---- scraper.py: MOSDACScraper
    visited_urls,     \* self.visited_urls
    content_data,     \* self.content_data
    snapshot,         \* the contents of scraped_data.json
    stack,            \* the call stack of crawl_page, innermost frame last
    max_depth,        \* the max_depth argument of the run
    phase,            \* where start_crawling is: "idle", "crawling", "done"
    visitLog,         \* history: every (url, depth, parent) that passed line 215
    failed,           \* history: the urls whose render or extraction raised
    skipped,          \* history: the (url, depth) calls that returned at line 212
    hops,             \* history: for a url found within max_depth links of the
                      \* seed, the fewest links of a path found so far
    \* ---- indexer.py: MOSDACIndexer and the table mosdac_content
    store,            \* the rows of the table, in insertion order
    dbUp,             \* whether PostgreSQL answers
    upserts,          \* history: the documents whose INSERT was executed
    lastSearch,       \* history: the last /search request and its outcome
    \* ---- chatbot.py: MOSDACChatbot
    context_history,  \* self.context_history
    asked,            \* history: every query passed to chat, in call order
    lastChat,         \* history: what the last chat call did
    \* ---- methods called on their own
    lastCall          \* history: the last direct call of a method and its result

crawlVars == <<visited_urls, content_data, snapshot, stack, max_depth, phase,
               visitLog, failed, skipped, hops>>

indexVars == <<store, dbUp, upserts, lastSearch>>

chatVars == <<context_history, asked, lastChat>>

vars == <<crawlVars, indexVars, chatVars, lastCall>>

-----------------------------------------------------------------------------
(* Bounds *)

\* the longest list of links a rendered page carries
MaxLinks == 2

\* the largest max_depth a run is started with
MaxDepthBound == 2

\* the number of documents index_document is given in one behaviour
MaxIndexCalls == 3

\* the longest list bulk_index is given
MaxBulk == 2

\* the number of chat calls in one session over an empty table
MaxChats == 6

\* the number of chat calls in one session over the indexed corpus
MaxCorpusChats == 3

\* the number of path segments of a url passed to determine_category
MaxSegments == 2

\* the length of a title or description passed to calculate_relevance on its own
MaxTextLen == 4

-----------------------------------------------------------------------------
(* Python strings. A string is a sequence of characters: Len, SubSeq and \o
   act on it, and the character at i is SubSeq(s, i, i). *)

Abs(n) == IF n < 0 THEN -n ELSE n

CharAt(s, i) == SubSeq(s, i, i)

\* c in S, for a single character c
InStr(c, S) == \E i \in 1..Len(S) : CharAt(S, i) = c

LowerLetters == "abcdefghijklmnopqrstuvwxyz"

UpperLetters == "ABCDEFGHIJKLMNOPQRSTUVWXYZ"

Digits == "0123456789"

\* what the regular expression class \s matches
Whitespace == " \n\t"

LowerChar(c) ==
    IF InStr(c, UpperLetters)
    THEN CharAt(LowerLetters, CHOOSE i \in 1..Len(UpperLetters) : CharAt(UpperLetters, i) = c)
    ELSE c

RECURSIVE Lower(_)
\* str.lower
Lower(s) == IF s = "" THEN "" ELSE LowerChar(Head(s)) \o Lower(Tail(s))

\* str.isalnum: not empty, letters and digits only
IsAlnum(s) ==
    /\ s # ""
    /\ \A i \in 1..Len(s) :
          InStr(CharAt(s, i), LowerLetters \o UpperLetters \o Digits)

\* the operator `in` on strings: k in s
IsSubstr(k, s) ==
    \E i \in 0..(Len(s) - Len(k)) : SubSeq(s, i + 1, i + Len(k)) = k

\* str.find: the lowest offset of k in s, -1 when k does not occur
Find(k, s) ==
    IF IsSubstr(k, s)
    THEN CHOOSE i \in 0..(Len(s) - Len(k)) :
            /\ SubSeq(s, i + 1, i + Len(k)) = k
            /\ \A j \in 0..(i - 1) : SubSeq(s, j + 1, j + Len(k)) # k
    ELSE -1

RECURSIVE SplitFrom(_, _, _)
SplitFrom(s, i, cur) ==
    IF i > Len(s)
    THEN IF cur = "" THEN <<>> ELSE <<cur>>
    ELSE IF InStr(CharAt(s, i), Whitespace)
         THEN (IF cur = "" THEN <<>> ELSE <<cur>>) \o SplitFrom(s, i + 1, "")
         ELSE SplitFrom(s, i + 1, cur \o CharAt(s, i))

\* str.split(): the words between runs of whitespace
Split(s) == SplitFrom(s, 1, "")

RECURSIVE Join(_)
\* ' '.join(words)
Join(words) ==
    IF words = <<>> THEN ""
    ELSE IF Len(words) = 1 THEN words[1]
    ELSE words[1] \o " " \o Join(Tail(words))

\* str.strip()
RECURSIVE LStrip(_)
LStrip(s) ==
    IF s # "" /\ InStr(Head(s), Whitespace) THEN LStrip(Tail(s)) ELSE s

RECURSIVE RStripChars(_, _)
\* str.rstrip(chars)
RStripChars(s, chars) ==
    IF s # "" /\ InStr(CharAt(s, Len(s)), chars)
    THEN RStripChars(SubSeq(s, 1, Len(s) - 1), chars)
    ELSE s

Strip(s) == RStripChars(LStrip(s), Whitespace)

RECURSIVE SumSeq(_)
\* the sum of a sequence of integers
SumSeq(ns) == IF ns = <<>> THEN 0 ELSE ns[1] + SumSeq(Tail(ns))

-----------------------------------------------------------------------------
(* scraper.py *)

\* self.base_url: the base_url argument of the constructor
BaseUrl == "http://m.in"

\* The URL strings of the site: the seed, the seed with a trailing slash, and
\* two inner pages.
Urls == { BaseUrl, "http://m.in/", "http://m.in/reports/sea",
         "http://m.in/catalog/map?v=1" }

\* what content['links'] can be for one page: any list of same-domain URLs,
\* self-links and links back to an ancestor included. A link repeated within
\* one page is left out: its second occurrence meets the same visited_urls
\* and depth tests as a link to any page already dealt with.
LinkLists ==
    UNION { { l \in [1..n -> Urls] : \A i, j \in 1..n : i # j => l[i] # l[j] }
            : n \in 0..MaxLinks }

\* the value of the `parent` field of the seed's entry in visitLog
NoParent == ""

\* extract_content: the document of a page, reduced to its key. Its 'links'
\* field is what crawl_page iterates over; the frame holds that list.
extract_content(url) == [url |-> url]

\* a scraped_data.json left by an earlier run
StaleSnapshot == << extract_content("http://m.in/reports/sea") >>

Frame(url, depth, parent) ==
    [url |-> url, depth |-> depth, parent |-> parent, pc |-> "enter", links |-> <<>>]

Top == stack[Len(stack)]

Pop(stk) == SubSeq(stk, 1, Len(stk) - 1)

SetTop(stk, f) == [stk EXCEPT ![Len(stk)] = f]

\* mutant: the depth test of line 211 dropped
ShouldSkip_NoDepth(url, depth) == url \in visited_urls

\* mutant: the depth test of line 211 off by one
ShouldSkip_OffByOne(url, depth) == url \in visited_urls \/ depth > max_depth + 1

\* line 211: the guard of crawl_page
ShouldSkip(url, depth) == url \in visited_urls \/ depth > max_depth

\* mutant: line 215 dropped
MarkVisited_Forget(url) == visited_urls

\* line 215
MarkVisited(url) == visited_urls \cup {url}

\* mutant: only the page just extracted is written
save_progress_LatestOnly(data) ==
    IF data = <<>> THEN <<>> ELSE << data[Len(data)] >>

\* lines 245-248: json.dump of the whole list over the old file
save_progress(data) == data

\* mutant: no except clause, the exception unwinds every crawl_page frame
OnCrawlError_Propagate(stk) == <<>>

\* lines 242-243: the except clause logs and crawl_page returns to its caller
OnCrawlError(stk) == Pop(stk)

\* the service side before anything was indexed or asked
NoSearch == [status |-> "none"]

NoChat == [status |-> "none"]

NoCall == [method |-> "none"]

InitServiceIdle ==
    /\ store = <<>>
    /\ dbUp = TRUE
    /\ upserts = <<>>
    /\ lastSearch = NoSearch
    /\ context_history = <<>>
    /\ asked = <<>>
    /\ lastChat = NoChat
    /\ lastCall = NoCall

\* the default of crawl_page's max_depth
DefaultMaxDepth == 3

\* a scraper that was constructed and not started
CrawlNotStarted ==
    /\ visited_urls = {}
    /\ content_data = <<>>
    /\ snapshot = <<>>
    /\ stack = <<>>
    /\ max_depth = DefaultMaxDepth
    /\ phase = "idle"
    /\ visitLog = <<>>
    /\ failed = {}
    /\ skipped = {}
    /\ hops = [u \in {BaseUrl} |-> 0]

InitCrawl ==
    /\ InitServiceIdle
    /\ visited_urls = {}
    /\ content_data = <<>>
    /\ snapshot \in { <<>>, StaleSnapshot }
    /\ stack = <<>>
    /\ max_depth \in 0..MaxDepthBound
    /\ phase = "idle"
    /\ visitLog = <<>>
    /\ failed = {}
    /\ skipped = {}
    /\ hops = [u \in {BaseUrl} |-> 0]

\* start_crawling, line 253: crawl_page(self.base_url)
StartCrawling ==
    /\ phase = "idle"
    /\ phase' = "crawling"
    /\ stack' = << Frame(BaseUrl, 0, NoParent) >>
    /\ UNCHANGED <<visited_urls, content_data, snapshot, max_depth, visitLog, failed, skipped,
                   hops, indexVars, chatVars, lastCall>>

\* mutant: the url is marked visited before the guard
VisitedAfterSkip_Marked(url) == visited_urls \cup {url}

\* line 212: the return comes before line 215, visited_urls is as it was
VisitedAfterSkip(url) == visited_urls

\* crawl_page, lines 211-212: early return
CrawlSkip ==
    /\ phase = "crawling" /\ stack # <<>> /\ Top.pc = "enter"
    /\ ShouldSkip(Top.url, Top.depth)
    /\ stack' = Pop(stack)
    /\ skipped' = skipped \cup { <<Top.url, Top.depth>> }
    /\ visited_urls' = VisitedAfterSkip(Top.url)
    /\ UNCHANGED <<content_data, snapshot, max_depth, phase, visitLog, failed,
                   hops, indexVars, chatVars, lastCall>>

\* crawl_page, lines 214-215: the url is marked visited before anything else
CrawlVisit ==
    /\ phase = "crawling" /\ stack # <<>> /\ Top.pc = "enter"
    /\ ~ShouldSkip(Top.url, Top.depth)
    /\ visited_urls' = MarkVisited(Top.url)
    /\ visitLog' = Append(visitLog,
                      [url |-> Top.url, depth |-> Top.depth, parent |-> Top.parent])
    /\ stack' = SetTop(stack, [Top EXCEPT !.pc = "fetch"])
    /\ UNCHANGED <<content_data, snapshot, max_depth, phase, failed, skipped, hops, indexVars, chatVars, lastCall>>

\* the links of a page, extracted at lines 165-171, are one link further
\* from the seed than the page
FewestHops(url, links) ==
    IF url \in DOMAIN hops /\ hops[url] < max_depth
    THEN LET found == { links[i] : i \in DOMAIN links }
             known == DOMAIN hops
         IN  [u \in known \cup found |->
                 IF u \in found /\ (u \notin known \/ hops[url] + 1 < hops[u])
                 THEN hops[url] + 1
                 ELSE hops[u]]
    ELSE hops

\* crawl_page, lines 219-232: render, extract, append
FetchOk ==
    /\ phase = "crawling" /\ stack # <<>> /\ Top.pc = "fetch"
    /\ \E links \in LinkLists :
          /\ content_data' = Append(content_data, extract_content(Top.url))
          /\ stack' = SetTop(stack, [Top EXCEPT !.pc = "save", !.links = links])
          /\ hops' = FewestHops(Top.url, links)
    /\ UNCHANGED <<visited_urls, snapshot, max_depth, phase, visitLog, failed, skipped,
                   indexVars, chatVars, lastCall>>

\* crawl_page, lines 219-231 raising: driver.get, the wait for <body>, or
\* extract_content fails; lines 242-243 log it
FetchFail ==
    /\ phase = "crawling" /\ stack # <<>> /\ Top.pc = "fetch"
    /\ failed' = failed \cup {Top.url}
    /\ stack' = OnCrawlError(stack)
    /\ UNCHANGED <<visited_urls, content_data, snapshot, max_depth, phase, visitLog, skipped,
                   hops, indexVars, chatVars, lastCall>>

\* crawl_page, line 235
SaveProgress ==
    /\ phase = "crawling" /\ stack # <<>> /\ Top.pc = "save"
    /\ snapshot' = save_progress(content_data)
    /\ stack' = SetTop(stack, [Top EXCEPT !.pc = "loop"])
    /\ UNCHANGED <<visited_urls, content_data, max_depth, phase, visitLog, failed, skipped,
                   hops, indexVars, chatVars, lastCall>>

\* crawl_page, lines 238-240: the next link is not yet visited: recurse
LoopCall ==
    /\ phase = "crawling" /\ stack # <<>> /\ Top.pc = "loop" /\ Top.links # <<>>
    /\ Head(Top.links) \notin visited_urls
    /\ stack' = Append(SetTop(stack, [Top EXCEPT !.links = Tail(Top.links)]),
                       Frame(Head(Top.links), Top.depth + 1, Top.url))
    /\ UNCHANGED <<visited_urls, content_data, snapshot, max_depth, phase, visitLog, failed, skipped,
                   hops, indexVars, chatVars, lastCall>>

\* crawl_page, lines 238-239: the next link is already visited: next iteration
LoopSkip ==
    /\ phase = "crawling" /\ stack # <<>> /\ Top.pc = "loop" /\ Top.links # <<>>
    /\ Head(Top.links) \in visited_urls
    /\ stack' = SetTop(stack, [Top EXCEPT !.links = Tail(Top.links)])
    /\ UNCHANGED <<visited_urls, content_data, snapshot, max_depth, phase, visitLog, failed, skipped,
                   hops, indexVars, chatVars, lastCall>>

\* crawl_page, line 238: the loop is over, crawl_page returns
LoopEnd ==
    /\ phase = "crawling" /\ stack # <<>> /\ Top.pc = "loop" /\ Top.links = <<>>
    /\ stack' = Pop(stack)
    /\ UNCHANGED <<visited_urls, content_data, snapshot, max_depth, phase, visitLog, failed, skipped,
                   hops, indexVars, chatVars, lastCall>>

\* start_crawling, lines 254-256: the finally clause
FinishCrawling ==
    /\ phase = "crawling" /\ stack = <<>>
    /\ snapshot' = save_progress(content_data)
    /\ phase' = "done"
    /\ UNCHANGED <<visited_urls, content_data, stack, max_depth, visitLog, failed, skipped,
                   hops, indexVars, chatVars, lastCall>>

NextCrawl ==
    \/ StartCrawling
    \/ CrawlSkip
    \/ CrawlVisit
    \/ FetchOk
    \/ FetchFail
    \/ SaveProgress
    \/ LoopCall
    \/ LoopSkip
    \/ LoopEnd
    \/ FinishCrawling

SpecCrawl == InitCrawl /\ [][NextCrawl]_vars

\* The crawl is one thread: each statement runs to completion (a render that
\* never finishes ends in the 10 s wait's TimeoutException), so a step that
\* can be taken is taken.
FairSpecCrawl == SpecCrawl /\ WF_vars(NextCrawl)

-----------------------------------------------------------------------------
(* scraper.py: the documents the crawl writes to scraped_data.json *)

\* mutant: the url is tested as it is written
determine_category_NoLower(url) ==
    LET url_lower == url IN
    IF IsSubstr("/missions/", url_lower) THEN "missions"
    ELSE IF IsSubstr("/catalog/", url_lower) THEN "catalog"
    ELSE IF IsSubstr("/galleries/", url_lower) THEN "galleries"
    ELSE IF IsSubstr("/data-access/", url_lower) THEN "data_access"
    ELSE IF IsSubstr("/reports/", url_lower) THEN "reports"
    ELSE IF IsSubstr("/services/", url_lower) THEN "services"
    ELSE "other"

\* determine_category, lines 192-207
determine_category(url) ==
    LET url_lower == Lower(url) IN
    IF IsSubstr("/missions/", url_lower) THEN "missions"
    ELSE IF IsSubstr("/catalog/", url_lower) THEN "catalog"
    ELSE IF IsSubstr("/galleries/", url_lower) THEN "galleries"
    ELSE IF IsSubstr("/data-access/", url_lower) THEN "data_access"
    ELSE IF IsSubstr("/reports/", url_lower) THEN "reports"
    ELSE IF IsSubstr("/services/", url_lower) THEN "services"
    ELSE "other"

\* the path segments of the urls determine_category is called with
PathSegments ==
    { "missions", "catalog", "galleries", "data-access", "reports", "services",
      "Reports", "data_access", "sea" }

RECURSIVE PathsOf(_)
\* the paths of exactly n segments
PathsOf(n) ==
    IF n = 0 THEN { "" }
    ELSE { p \o "/" \o seg : p \in PathsOf(n - 1), seg \in PathSegments }

\* urls of the site, with and without a trailing slash
CategoryUrls ==
    { BaseUrl \o p \o slash :
        p \in UNION { PathsOf(n) : n \in 0..MaxSegments }, slash \in { "", "/" } }

\* determine_category on these urls, computed once
CategoryCalls ==
    { [method |-> "determine_category", url |-> url, result |-> determine_category(url)] :
        url \in CategoryUrls }

\* a call of determine_category
DetermineCategory ==
    /\ lastCall' \in CategoryCalls
    /\ UNCHANGED <<crawlVars, indexVars, chatVars>>

InitCategory == CrawlNotStarted /\ InitServiceIdle

NextCategory == DetermineCategory

SpecCategory == InitCategory /\ [][NextCategory]_vars

\* Python's None, as the value of a field: what soup.title.string (line 141)
\* is for a title element without text. No text of the model equals it.
None == "<None>"

\* extract_content, lines 125-138: the fields the indexer and the chatbot read
ScrapedDoc(url, title, text, desc, links) ==
    [url |-> url, title |-> title, text_content |-> text,
     meta_description |-> desc, links |-> links,
     category |-> determine_category(url)]

DocHome ==
    ScrapedDoc(BaseUrl, "Home", "welcome", "",
               << "http://m.in/", "http://m.in/reports/sea" >>)

DocSea ==
    ScrapedDoc("http://m.in/reports/sea", "Sea  Reports #1", "sea level reports",
               "sea", << "http://m.in/catalog/map?v=1" >>)

\* the same page crawled again later
DocSeaNew ==
    ScrapedDoc("http://m.in/reports/sea", "Sea Reports", "reports of the sea",
               "sea reports", <<>>)

DocMap ==
    ScrapedDoc("http://m.in/catalog/map?v=1", "Maps", "map of the sea", "",
               << "http://m.in/" >>)

\* a page whose title element is empty, under the url of the home page
\* written with a trailing slash
DocUntitled ==
    ScrapedDoc("http://m.in/", None, "sea reports archive", "", <<>>)

\* the documents a scraped_data.json can hold
Catalog == { DocHome, DocSea, DocSeaNew, DocMap, DocUntitled }

-----------------------------------------------------------------------------
(* indexer.py *)

RECURSIVE CollapseWs(_, _)
\* re.sub(r'\s+', ' ', text); inRun: the previous character was whitespace
CollapseWs(s, inRun) ==
    IF s = "" THEN ""
    ELSE IF InStr(Head(s), Whitespace)
         THEN (IF inRun THEN "" ELSE " ") \o CollapseWs(Tail(s), TRUE)
         ELSE Head(s) \o CollapseWs(Tail(s), FALSE)

\* the characters [\w\s.,!?-] keeps
KeptChars == LowerLetters \o UpperLetters \o Digits \o "_" \o Whitespace \o ".,!?-"

RECURSIVE DropSpecial(_)
\* re.sub(r'[^\w\s.,!?-]', '', text)
DropSpecial(s) ==
    IF s = "" THEN ""
    ELSE (IF InStr(Head(s), KeptChars) THEN Head(s) ELSE "") \o DropSpecial(Tail(s))

\* clean_text, lines 146-152
clean_text(text) == Strip(DropSpecial(CollapseWs(text, FALSE)))

\* line 159: the parameters clean_url keeps a query string for
EssentialParams == { "id=", "page=", "view=" }

\* url.split('?')[0]
BeforeQuery(url) == SubSeq(url, 1, Find("?", url))

\* clean_url, lines 154-161
clean_url(url) ==
    LET u == RStripChars(url, "/") IN
    IF IsSubstr("?", u) /\ ~(\E param \in EssentialParams : IsSubstr(param, u))
    THEN BeforeQuery(u)
    ELSE u

\* index_document, lines 111-127: the document as it is passed to the INSERT
\* (the dictionary is changed in place)
Prepared(document) ==
    [document EXCEPT
        !.title = IF @ # "" /\ @ # None THEN clean_text(@) ELSE @,
        !.text_content = IF @ # "" THEN clean_text(@) ELSE @,
        !.meta_description = IF @ # "" THEN clean_text(@) ELSE @,
        !.links = LET kept == SelectSeq(@, LAMBDA link : link # "")
                  IN [i \in DOMAIN kept |-> clean_url(kept[i])]]

\* mutant: INSERT ... ON CONFLICT (url) DO NOTHING
Upsert_KeepFirst(rows, d) ==
    IF \E i \in DOMAIN rows : rows[i].url = d.url THEN rows ELSE Append(rows, d)

\* lines 132-137 with the PRIMARY KEY of line 66: INSERT ... ON CONFLICT (url)
\* DO UPDATE SET every column of the document
Upsert(rows, d) ==
    IF \E i \in DOMAIN rows : rows[i].url = d.url
    THEN [i \in DOMAIN rows |-> IF rows[i].url = d.url THEN d ELSE rows[i]]
    ELSE Append(rows, d)

\* Prepared, tabulated over the catalog
PreparedDocs == [d \in Catalog |-> Prepared(d)]

RECURSIVE IndexAll(_, _)
\* bulk_index, lines 166-167: index_document for each document in turn
IndexAll(rows, docs) ==
    IF docs = <<>> THEN rows
    ELSE IndexAll(Upsert(rows, PreparedDocs[Head(docs)]), Tail(docs))

PreparedAll(docs) == [i \in DOMAIN docs |-> PreparedDocs[docs[i]]]

\* the lists bulk_index is given
BulkLists == UNION { [1..n -> Catalog] : n \in 1..MaxBulk }

\* index_document, lines 104-141, with the database answering
IndexDocumentOk ==
    /\ dbUp
    /\ Len(upserts) < MaxIndexCalls
    /\ \E document \in Catalog :
          /\ store' = Upsert(store, PreparedDocs[document])
          /\ upserts' = Append(upserts, PreparedDocs[document])
    /\ UNCHANGED <<dbUp, lastSearch, crawlVars, chatVars, lastCall>>

\* index_document, lines 142-144: cursor.execute raises, the error is logged
\* and raised again; the table is as it was
IndexDocumentFail ==
    /\ ~dbUp
    /\ UNCHANGED vars

\* bulk_index, lines 163-171: the connection is lost after the first k
\* documents (k = Len(docs): not at all); autocommit keeps the k rows
BulkIndex ==
    /\ dbUp
    /\ \E docs \in BulkLists :
          /\ Len(upserts) + Len(docs) <= MaxIndexCalls
          /\ \E k \in 0..Len(docs) :
                /\ store' = IndexAll(store, SubSeq(docs, 1, k))
                /\ upserts' = upserts \o PreparedAll(SubSeq(docs, 1, k))
                /\ dbUp' = (k = Len(docs))
    /\ UNCHANGED <<lastSearch, crawlVars, chatVars, lastCall>>

\* the environment: PostgreSQL stops answering
DbDown ==
    /\ dbUp
    /\ dbUp' = FALSE
    /\ UNCHANGED <<store, upserts, lastSearch, crawlVars, chatVars, lastCall>>

\* the environment: PostgreSQL answers again
DbUp ==
    /\ ~dbUp
    /\ dbUp' = TRUE
    /\ UNCHANGED <<store, upserts, lastSearch, crawlVars, chatVars, lastCall>>

\* the default of search's size
DefaultSize == 10

\* the category argument left out
NoCategory == ""

RECURSIVE Orderings(_)
\* the orders a set of rows can be ranked in
Orderings(S) ==
    IF S = {} THEN { <<>> }
    ELSE UNION { { <<x>> \o p : p \in Orderings(S \ {x}) } : x \in S }

\* lines 193-212: what the SELECT can return. Which rows match the tsquery,
\* and their rank order, are PostgreSQL's; any rows of the table in the
\* category, in any order, at most `size` of them.
QueryRows(query, category, size) ==
    LET eligible == { i \in DOMAIN store :
                        category = NoCategory \/ store[i].category = category }
    IN  UNION { { [j \in DOMAIN p |-> store[p[j]]] : p \in Orderings(M) }
                : M \in { M \in SUBSET eligible : Cardinality(M) <= size } }

\* search, lines 186-227: the values search can return. An exception of the
\* query is logged and an empty list is returned (lines 225-227).
indexer_search(query, category, size) ==
    IF dbUp
    THEN { [raised |-> FALSE, rows |-> r] : r \in QueryRows(clean_text(query), category, size) }
    ELSE { [raised |-> FALSE, rows |-> <<>>] }

-----------------------------------------------------------------------------
(* api.py *)

\* search, lines 63-68: the response of GET /search
api_search(ret) ==
    IF ret.raised
    THEN [code |-> 500, body |-> <<>>]
    ELSE [code |-> 200, body |-> ret.rows]

\* the query strings of the model: two keywords; an upper-case plural with
\* punctuation; stop words only
Queries == { "sea map", "Reports?", "the" }

\* GET /search?query=..&category=..&size=..
ApiSearch ==
    /\ \E query \in Queries, category \in {NoCategory, "reports"}, size \in {1, DefaultSize} :
          \E ret \in indexer_search(query, category, size) :
              lastSearch' = [status |-> "done", query |-> query, category |-> category,
                             size |-> size, dbFailed |-> ~dbUp,
                             response |-> api_search(ret)]
    /\ UNCHANGED <<store, dbUp, upserts, crawlVars, chatVars, lastCall>>

InitIndex == CrawlNotStarted /\ InitServiceIdle

NextIndex ==
    \/ IndexDocumentOk
    \/ IndexDocumentFail
    \/ BulkIndex
    \/ DbDown
    \/ DbUp
    \/ ApiSearch

SpecIndex == InitIndex /\ [][NextIndex]_vars

-----------------------------------------------------------------------------
(* chatbot.py *)

\* line 32
max_context_length == 5

\* line 149: min_relevance = 0.5, in tenths
min_relevance == 5

Punctuation == ".,!?"

RECURSIVE PadPunctuation(_)
PadPunctuation(s) ==
    IF s = "" THEN ""
    ELSE (IF InStr(Head(s), Punctuation) THEN " " \o Head(s) \o " " ELSE Head(s))
         \o PadPunctuation(Tail(s))

\* nltk's word_tokenize (line 40): words are split at whitespace and a
\* punctuation mark is a token of its own
word_tokenize(s) == Split(PadPunctuation(s))

\* stopwords.words('english') (line 29): the entries the model's texts meet
stop_words == { "the", "of", "a", "in", "is", "about" }

\* WordNetLemmatizer.lemmatize (line 47) on the model's vocabulary
lemmatize(token) ==
    CASE token = "reports" -> "report"
      [] token = "maps" -> "map"
      [] OTHER -> token

\* preprocess_query, lines 34-50
Preprocess(query) ==
    LET tokens == word_tokenize(Lower(query))
        kept == SelectSeq(tokens, LAMBDA token : IsAlnum(token) /\ token \notin stop_words)
    IN  [i \in DOMAIN kept |-> lemmatize(kept[i])]

\* Preprocess on the queries of the model, computed once
PreprocessedQueries == [query \in Queries |-> Preprocess(query)]

preprocess_query(query) ==
    IF query \in Queries THEN PreprocessedQueries[query] ELSE Preprocess(query)

\* mutant: the first test of the title is an equality
TitleScore_ExactIsEquality(doc, keywords) ==
    LET title == Lower(doc.title)
        words == Split(title)
    IN  SumSeq([i \in DOMAIN keywords |->
            IF keywords[i] = title THEN 30
            ELSE IF \E w \in DOMAIN words : IsSubstr(keywords[i], words[w]) THEN 20
            ELSE 0])

\* lines 89-96: the title, 3.0 for a substring, else 2.0 for a substring of a word
TitleScore(doc, keywords) ==
    LET title == Lower(doc.title)
        words == Split(title)
    IN  SumSeq([i \in DOMAIN keywords |->
            IF IsSubstr(keywords[i], title) THEN 30
            ELSE IF \E w \in DOMAIN words : IsSubstr(keywords[i], words[w]) THEN 20
            ELSE 0])

\* lines 98-105: the description, 1.5 and 1.0
DescriptionScore(doc, keywords) ==
    LET desc == Lower(doc.meta_description)
        words == Split(desc)
    IN  SumSeq([i \in DOMAIN keywords |->
            IF IsSubstr(keywords[i], desc) THEN 15
            ELSE IF \E w \in DOMAIN words : IsSubstr(keywords[i], words[w]) THEN 10
            ELSE 0])

\* lines 107-117: the content, 0.5 for a keyword that occurs, and 0.3 for
\* every other entry of keywords that differs from it and whose find() offset
\* is less than 50 away
ContentScore(doc, keywords) ==
    LET content == Lower(doc.text_content) IN
    SumSeq([i \in DOMAIN keywords |->
        IF IsSubstr(keywords[i], content)
        THEN 5 + 3 * Cardinality({ j \in DOMAIN keywords :
                        /\ keywords[j] # keywords[i]
                        /\ Abs(Find(keywords[i], content) - Find(keywords[j], content)) < 50 })
        ELSE 0])

\* lines 119-123: the category, 2.0
CategoryScore(doc, keywords) ==
    LET category == Lower(doc.category) IN
    SumSeq([i \in DOMAIN keywords |-> IF IsSubstr(keywords[i], category) THEN 20 ELSE 0])

\* lines 127-130: 0.2 for every keyword of one query of context_history that
\* occurs in the content
ContextBoost(doc, context) ==
    LET content == Lower(doc.text_content)
        context_keywords == preprocess_query(context)
    IN  SumSeq([k \in DOMAIN context_keywords |->
            IF IsSubstr(context_keywords[k], content) THEN 2 ELSE 0])

\* lines 88-123: the part of the score that the keywords give
KeywordScore(doc, keywords) ==
    TitleScore(doc, keywords) + DescriptionScore(doc, keywords)
        + ContentScore(doc, keywords) + CategoryScore(doc, keywords)

\* the rows the table can hold and the keyword lists of the model's queries
IndexedRows == { PreparedDocs[d] : d \in Catalog }
KeywordLists == { PreprocessedQueries[query] : query \in Queries }

\* KeywordScore and ContextBoost on these, computed once
KeywordScores == [doc \in IndexedRows, keywords \in KeywordLists |-> KeywordScore(doc, keywords)]
ContextBoosts == [doc \in IndexedRows, context \in Queries |-> ContextBoost(doc, context)]

\* lines 125-130
ContextScore(doc, history) ==
    SumSeq([c \in DOMAIN history |->
        IF doc \in IndexedRows /\ history[c] \in Queries
        THEN ContextBoosts[doc, history[c]]
        ELSE ContextBoost(doc, history[c])])

\* line 90: doc.get('title', '') is None for a row whose title is NULL, and
\* None.lower() raises AttributeError
RelevanceRaises(doc) == doc.title = None

RECURSIVE TextsOf(_)
\* the texts of exactly n characters: letters of both cases and spaces
TextsOf(n) ==
    IF n = 0 THEN { "" }
    ELSE { t \o c : t \in TextsOf(n - 1), c \in { "a", "B", " " } }

\* the titles and descriptions calculate_relevance is called with on its own
ProbeTexts == UNION { TextsOf(n) : n \in 0..MaxTextLen }

\* the keyword lists it is called with: one or two keywords
ProbeWords == { "a", "b", "aa", "ab", "ba", "bb" }
ProbeKeywords ==
    { <<k>> : k \in ProbeWords } \cup { <<k, l>> : k, l \in ProbeWords }

\* a call of calculate_relevance on a document that has the text as title and
\* as description: the scores of lines 89-96 and 98-105
ScoreTitleAndDescription ==
    /\ lastCall.method = "pending"
    /\ lastCall' = [method |-> "calculate_relevance",
                    doc |-> lastCall.doc,
                    keywords |-> lastCall.keywords,
                    title_score |-> TitleScore(lastCall.doc, lastCall.keywords),
                    description_score |-> DescriptionScore(lastCall.doc, lastCall.keywords)]
    /\ UNCHANGED <<crawlVars, indexVars, chatVars>>

\* a chatbot about to score one document, nothing indexed or asked
InitRelevance ==
    /\ CrawlNotStarted
    /\ store = <<>> /\ dbUp = TRUE /\ upserts = <<>> /\ lastSearch = NoSearch
    /\ context_history = <<>> /\ asked = <<>> /\ lastChat = NoChat
    /\ \E text \in ProbeTexts, keywords \in ProbeKeywords :
          lastCall = [method |-> "pending",
                      doc |-> [url |-> BaseUrl, title |-> text, text_content |-> "",
                               meta_description |-> text, links |-> <<>>,
                               category |-> "other"],
                      keywords |-> keywords]

NextRelevance == ScoreTitleAndDescription

SpecRelevance == InitRelevance /\ [][NextRelevance]_vars

\* calculate_relevance, lines 85-132, in tenths; history is self.context_history
calculate_relevance(doc, keywords, history) ==
    (IF doc \in IndexedRows /\ keywords \in KeywordLists
     THEN KeywordScores[doc, keywords]
     ELSE KeywordScore(doc, keywords))
        + ContextScore(doc, history)

RECURSIVE InsertDesc(_, _)
InsertDesc(x, sorted) ==
    IF sorted = <<>> THEN <<x>>
    ELSE IF sorted[1].relevance <= x.relevance THEN <<x>> \o sorted
    ELSE <<sorted[1]>> \o InsertDesc(x, Tail(sorted))

RECURSIVE SortDesc(_)
\* line 146: list.sort by relevance, reverse=True: stable, equal entries keep
\* their order
SortDesc(docs) ==
    IF docs = <<>> THEN <<>> ELSE InsertDesc(Head(docs), SortDesc(Tail(docs)))

\* mutant: the filter of line 150 dropped
KeepRelevant_All(docs) == docs

\* lines 149-150
KeepRelevant(docs) == SelectSeq(docs, LAMBDA doc : doc.relevance >= min_relevance)

RECURSIVE FirstSeenCategories(_, _)
\* lines 156-161: the keys of categorized_results, in insertion order
FirstSeenCategories(docs, seen) ==
    IF docs = <<>> THEN seen
    ELSE FirstSeenCategories(Tail(docs),
            IF \E i \in DOMAIN seen : seen[i] = Head(docs).category
            THEN seen ELSE Append(seen, Head(docs).category))

RECURSIVE GroupByCategory(_, _)
\* lines 167-169: the documents in the order they are written, category by
\* category
GroupByCategory(docs, categories) ==
    IF categories = <<>> THEN <<>>
    ELSE SelectSeq(docs, LAMBDA doc : doc.category = Head(categories))
         \o GroupByCategory(docs, Tail(categories))

\* lines 204-207: the confidence line, -1 when it is not written
Confidence(relevance) ==
    LET confidence == IF relevance * 2 < 100 THEN relevance * 2 ELSE 100
    IN  IF confidence >= 50 THEN confidence ELSE -1

\* summarize_results, lines 134-209: the returned text as a record: which of
\* the three messages it is, the count of the header line, and the documents
\* listed. Key sentences and links of an entry are left out. An exception of
\* the scoring loop (lines 142-143) leaves the method: kind "raised".
summarize_results(results, query, history) ==
    IF results = <<>>
    THEN [kind |-> "no_results", query |-> query]
    ELSE IF \E i \in DOMAIN results : RelevanceRaises(results[i])
    THEN [kind |-> "raised", error |-> "AttributeError"]
    ELSE
        LET keywords == preprocess_query(query)
            scored == [i \in DOMAIN results |->
                          [url |-> results[i].url,
                           title |-> results[i].title,
                           category |-> results[i].category,
                           relevance |-> calculate_relevance(results[i], keywords, history)]]
            kept == KeepRelevant(SortDesc(scored))
            listed == GroupByCategory(kept, FirstSeenCategories(kept, <<>>))
        IN  IF kept = <<>>
            THEN [kind |-> "low_relevance", query |-> query]
            ELSE [kind |-> "digest",
                  count |-> Len(kept),
                  entries |-> [i \in DOMAIN listed |->
                                  [url |-> listed[i].url,
                                   title |-> listed[i].title,
                                   category |-> listed[i].category,
                                   confidence |-> Confidence(listed[i].relevance)]]]

\* mutant: the oldest query is kept and the newest dropped
UpdateContext_DropNewest(history, query) ==
    LET appended == Append(history, query) IN
    IF Len(appended) > max_context_length
    THEN SubSeq(appended, 1, Len(appended) - 1)
    ELSE appended

\* chat, lines 213-215
UpdateContext(history, query) ==
    LET appended == Append(history, query) IN
    IF Len(appended) > max_context_length THEN Tail(appended) ELSE appended

\* mutant: the test of line 223 dropped
NeedsFallback_NoKeywordTest(results, keywords) == results = <<>>

\* chat, lines 221-223: whether the second search is made
NeedsFallback(results, keywords) == results = <<>> /\ keywords # <<>>

\* what one chat call did: the texts searched, what each search returned,
\* what was passed to summarize_results, and the response
ChatTrace(query, searches, returns, results, history) ==
    [status |-> "done",
     query |-> query,
     searches |-> searches,
     returns |-> returns,
     passed |-> results,
     response |-> summarize_results(results, query, history),
     dbFailed |-> ~dbUp]

\* the session length the model follows
SessionBound == IF store = <<>> THEN MaxChats ELSE MaxCorpusChats

\* chat, lines 211-229
Chat ==
    /\ Len(asked) < SessionBound
    /\ \E query \in Queries :
          LET history == UpdateContext(context_history, query)
              keywords == preprocess_query(query)
          IN  /\ context_history' = history
              /\ asked' = Append(asked, query)
              /\ \E first \in indexer_search(query, NoCategory, DefaultSize) :
                    IF NeedsFallback(first.rows, keywords)
                    THEN \E second \in indexer_search(Join(keywords), NoCategory, DefaultSize) :
                            lastChat' = ChatTrace(query, << query, Join(keywords) >>,
                                                  << first.rows, second.rows >>,
                                                  second.rows, history)
                    ELSE lastChat' = ChatTrace(query, << query >>, << first.rows >>,
                                               first.rows, history)
    /\ UNCHANGED <<store, dbUp, upserts, lastSearch, crawlVars, lastCall>>

\* the documents indexed before the session
ChatCorpus == << DocHome, DocSea, DocMap, DocUntitled >>

\* a session, before anything was indexed or over the indexed corpus
InitChat ==
    /\ CrawlNotStarted
    /\ \E corpus \in { <<>>, ChatCorpus } :
          /\ store = IndexAll(<<>>, corpus)
          /\ upserts = PreparedAll(corpus)
    /\ dbUp = TRUE
    /\ lastSearch = NoSearch
    /\ context_history = <<>>
    /\ asked = <<>>
    /\ lastChat = NoChat
    /\ lastCall = NoCall

NextChat ==
    \/ Chat
    \/ DbDown
    \/ DbUp

SpecChat == InitChat /\ [][NextChat]_vars

-----------------------------------------------------------------------------
(* Claims about the crawl *)

\* C1: in one crawl run no URL is processed more than once: each URL passes
\* line 215 (enters visited_urls) at most once, and content_data never holds
\* two documents with the same url.
C1_NoUrlTwice ==
    /\ \A i, j \in DOMAIN visitLog :
          visitLog[i].url = visitLog[j].url => i = j
    /\ \A i, j \in DOMAIN content_data :
          content_data[i].url = content_data[j].url => i = j

\* C1 witness: the loop meets a link to a page already visited, with two
\* documents extracted.
C1_Witness ==
    /\ stack # <<>> /\ Top.pc = "loop" /\ Top.links # <<>>
    /\ Head(Top.links) \in visited_urls
    /\ Len(content_data) >= 2

\* C2: the crawl started at the seed with depth 0 terminates on every link
\* graph, cyclic ones included, and every page it processes is processed at a
\* depth d with 0 <= d <= max_depth.
C2_TerminatesWithinDepth ==
    /\ <>(phase = "done")
    /\ [](\A i \in DOMAIN visitLog :
            visitLog[i].depth >= 0 /\ visitLog[i].depth <= max_depth)

\* C2 witness: a cycle A -> B -> A: the page being traversed links back to the
\* page that called it.
C2_Witness ==
    /\ Len(stack) >= 2 /\ Top.pc = "loop" /\ Top.links # <<>>
    /\ Head(Top.links) = stack[Len(stack) - 1].url

\* the state part of C3
C3_FailedStaysOut ==
    /\ failed \subseteq visited_urls
    /\ \A u \in failed :
          /\ Cardinality({ i \in DOMAIN visitLog : visitLog[i].url = u }) = 1
          /\ \A i \in DOMAIN content_data : content_data[i].url # u
          /\ \A i \in DOMAIN visitLog : visitLog[i].parent # u
          /\ \A i \in DOMAIN stack : stack[i].parent # u

\* the step part of C3: a render or extraction that raises (a step from the
\* fetch position that adds no document) returns to the caller's frame, whose
\* remaining links are as they were, and the crawl goes on.
C3_FailureReturnsToParent ==
    (stack # <<>> /\ Top.pc = "fetch" /\ content_data' = content_data)
        => (stack' = Pop(stack) /\ phase' = "crawling")

\* C3: a failure while rendering or extracting one URL never aborts the
\* crawl: the failed URL stays in visited_urls and is never attempted again,
\* no document for it is added, none of its links are traversed from it, and
\* the remaining links of its parent are still traversed.
C3_FailureIsLocal ==
    /\ []C3_FailedStaysOut
    /\ [][C3_FailureReturnsToParent]_vars

\* C3 witness: a page failed and a later sibling (a link of the same parent)
\* was processed after it.
C3_Witness ==
    \E i, j \in DOMAIN visitLog :
        /\ i < j
        /\ visitLog[i].url \in failed
        /\ visitLog[i].parent # NoParent
        /\ visitLog[j].parent = visitLog[i].parent

C5_DepthZeroSeedOnly ==
    max_depth = 0 =>
        /\ visited_urls \subseteq {BaseUrl}
        /\ phase = "done" => visited_urls = {BaseUrl}
        /\ Len(content_data) <= 1
        /\ \A i \in DOMAIN content_data : content_data[i].url = BaseUrl

\* C5 witness: a crawl with max_depth = 0 is over, the seed page was
\* extracted and had links that were turned away at depth 1.
C5_Witness ==
    /\ max_depth = 0 /\ phase = "done"
    /\ Len(content_data) = 1
    /\ skipped # {}

-----------------------------------------------------------------------------
(* Claims about the store *)

MaxOf(S) == CHOOSE m \in S : \A n \in S : n <= m

\* C6: after any sequence of index_document / bulk_index calls the table
\* holds at most one row per url, and the row of a url is the document most
\* recently upserted with that url (last write wins, never a duplicate).
C6_LastWriteWins ==
    /\ \A i \in DOMAIN store : \E j \in DOMAIN upserts : upserts[j].url = store[i].url
    /\ \A j \in DOMAIN upserts :
          LET u == upserts[j].url
              last == MaxOf({ k \in DOMAIN upserts : upserts[k].url = u })
              rows == { i \in DOMAIN store : store[i].url = u }
          IN  /\ Cardinality(rows) = 1
              /\ \A i \in rows : store[i] = upserts[last]

\* C6 witness: one url was upserted twice, with different contents.
C6_Witness ==
    \E i, j \in DOMAIN upserts :
        /\ i < j
        /\ upserts[i].url = upserts[j].url
        /\ upserts[i] # upserts[j]

\* C7: when the store is unavailable during a search, the failure reaches
\* the caller as an error: GET /search does not answer 200 with a result list.
C7_SearchFailureSurfaces ==
    (lastSearch.status = "done" /\ lastSearch.dbFailed)
        => lastSearch.response.code # 200

-----------------------------------------------------------------------------
(* Claims about the chat session *)

\* C8: after chat(q1..qn) on one session context_history has length
\* min(n, 5) and is exactly the last min(n, 5) queries in call order, so its
\* length never exceeds 5 between calls.
C8_ContextIsLastFive ==
    LET n == Len(asked)
        k == IF n < 5 THEN n ELSE 5
    IN  /\ Len(context_history) = k
        /\ context_history = SubSeq(asked, n - k + 1, n)
        /\ Len(context_history) <= 5

\* C8 witness: a session of more than five calls, whose first query was
\* evicted.
C8_Witness ==
    /\ Len(asked) > 5
    /\ Len(context_history) = 5
    /\ context_history[1] # asked[1]

\* C9, as stated: chat searches with the raw query first, makes the second
\* search, with the joined keywords, whenever the first search returned zero
\* results and only then, and passes the results of the last search made to
\* summarize_results.
C9_FallbackWheneverEmpty ==
    lastChat.status = "done" =>
        /\ lastChat.searches[1] = lastChat.query
        /\ (lastChat.returns[1] = <<>>) <=> (Len(lastChat.searches) = 2)
        /\ Len(lastChat.searches) = 2 =>
              lastChat.searches[2] = Join(preprocess_query(lastChat.query))
        /\ lastChat.passed = lastChat.returns[Len(lastChat.searches)]

\* C9, amended: chat searches with the raw query first; it makes the second
\* search, with the joined keywords, exactly when the first search returned
\* zero results and preprocess_query(query) is not empty; the results of the
\* last search made, even if empty, are passed to summarize_results.
C9_FallbackWhenEmptyAndKeywords ==
    lastChat.status = "done" =>
        /\ Len(lastChat.searches) \in {1, 2}
        /\ Len(lastChat.returns) = Len(lastChat.searches)
        /\ lastChat.searches[1] = lastChat.query
        /\ (Len(lastChat.searches) = 2) <=>
              (lastChat.returns[1] = <<>> /\ preprocess_query(lastChat.query) # <<>>)
        /\ Len(lastChat.searches) = 2 =>
              lastChat.searches[2] = Join(preprocess_query(lastChat.query))
        /\ lastChat.passed = lastChat.returns[Len(lastChat.searches)]
        /\ lastChat.passed = <<>> => lastChat.response.kind = "no_results"

\* C9 witness: the first search returned nothing, the second search was made
\* with a text that differs from the query, and it found documents.
C9_Witness ==
    /\ lastChat.status = "done"
    /\ Len(lastChat.searches) = 2
    /\ lastChat.returns[1] = <<>>
    /\ lastChat.searches[2] # lastChat.searches[1]
    /\ lastChat.passed # <<>>

\* the documents passed to summarize_results that score at least 0.5, as
\* positions of the list
C10_Relevant ==
    { i \in DOMAIN lastChat.passed :
        calculate_relevance(lastChat.passed[i], preprocess_query(lastChat.query),
                            context_history) >= 5 }

\* C10: no document whose computed relevance is below 0.5 appears in the
\* output of summarize_results, and the count of the header equals the number
\* of documents with relevance >= 0.5 (an output without a header lists no
\* document, and is given only when that number is zero).
C10_OnlyRelevantListed ==
    lastChat.status = "done" =>
        IF lastChat.response.kind = "digest"
        THEN /\ lastChat.response.count = Cardinality(C10_Relevant)
             /\ Len(lastChat.response.entries) = lastChat.response.count
             /\ \A e \in DOMAIN lastChat.response.entries :
                    \E i \in C10_Relevant :
                        lastChat.passed[i].url = lastChat.response.entries[e].url
        ELSE lastChat.response.kind \in {"no_results", "low_relevance"} =>
                C10_Relevant = {}

\* C10 witness: a digest that lists some of the documents passed and leaves
\* out one that scored below 0.5 without scoring zero.
C10_Witness ==
    /\ lastChat.status = "done"
    /\ lastChat.response.kind = "digest"
    /\ lastChat.response.count < Len(lastChat.passed)
    /\ \E i \in DOMAIN lastChat.passed :
          LET relevance == calculate_relevance(lastChat.passed[i],
                               preprocess_query(lastChat.query), context_history)
          IN  relevance > 0 /\ relevance < 5

\* C11: summarize_results always returns a message: the no-results message
\* for an empty list, the low-relevance message for a non-empty list whose
\* documents all score below 0.5, a digest otherwise; it never raises.
C11_AlwaysAMessage ==
    lastChat.status = "done" =>
        /\ lastChat.response.kind \in {"no_results", "low_relevance", "digest"}
        /\ lastChat.passed = <<>> <=> lastChat.response.kind = "no_results"
        /\ (lastChat.passed # <<>> /\ C10_Relevant = {}) =>
              lastChat.response.kind = "low_relevance"

-----------------------------------------------------------------------------
(* Claims about single methods *)

\* the markers in the order the claim gives them, and their categories
C12_Markers ==
    << "/missions/", "/catalog/", "/galleries/", "/data-access/", "/reports/", "/services/" >>

C12_Categories ==
    << "missions", "catalog", "galleries", "data_access", "reports", "services" >>

\* C12: determine_category returns, for every url, the category of the first
\* marker of the fixed order that occurs in the lower-cased url, whichever
\* marker comes first in the url itself, and 'other' when none occurs.
C12_FirstMarkerWins ==
    lastCall.method = "determine_category" =>
        LET present == { i \in DOMAIN C12_Markers :
                            IsSubstr(C12_Markers[i], Lower(lastCall.url)) }
        IN  IF present = {}
            THEN lastCall.result = "other"
            ELSE \E i \in present :
                    /\ \A j \in present : i <= j
                    /\ lastCall.result = C12_Categories[i]

\* C12 witness: a url with an upper-case marker followed by a marker that is
\* earlier in the fixed order.
C12_Witness ==
    /\ lastCall.method = "determine_category"
    /\ lastCall.url = "http://m.in/Reports/catalog/"
    /\ lastCall.result = "catalog"

\* C13: every document the crawl produces is keyed by its canonical url,
\* clean_url(url) = url, and two url strings with the same canonical form
\* (they differ by a trailing slash or a non-essential query string) are
\* visited once and never yield two documents.
C13_CanonicalKeys ==
    /\ \A i \in DOMAIN content_data :
          clean_url(content_data[i].url) = content_data[i].url
    /\ \A i, j \in DOMAIN content_data :
          clean_url(content_data[i].url) = clean_url(content_data[j].url) => i = j
    /\ \A u, v \in visited_urls : clean_url(u) = clean_url(v) => u = v

\* C13, for the table: no two stored rows have the same canonical url.
C13_CanonicalRows ==
    \A i, j \in DOMAIN store :
        clean_url(store[i].url) = clean_url(store[j].url) => i = j

\* C14, as stated: a url is processed only at the depth at which the
\* traversal first encounters it: when a url passes line 215, no earlier call
\* of crawl_page met it at another depth.
C14_OnlyAtFirstEncounter ==
    [][ visitLog' # visitLog =>
            /\ \A i \in DOMAIN visitLog : visitLog[i].url # Top.url
            /\ \A s \in skipped : s[1] = Top.url => s[2] = Top.depth ]_vars

\* C14, amended: a url is processed at most once in a run, at the depth of
\* the first encounter that passes the guard of line 211 (depth <= max_depth),
\* and never again at another depth, a shallower one included; the encounters
\* before that one were all rejected for depth > max_depth and left the url
\* unvisited.
C14_OnceAtFirstAdmittedDepth ==
    [][ visitLog' # visitLog =>
            /\ Top.depth <= max_depth
            /\ \A i \in DOMAIN visitLog : visitLog[i].url # Top.url
            /\ \A s \in skipped : s[1] = Top.url => s[2] > max_depth
            /\ visitLog' = Append(visitLog, [url |-> Top.url, depth |-> Top.depth,
                                             parent |-> Top.parent]) ]_vars

\* C14 witness: the loop of a page meets a link to a url that was processed
\* deeper than the link would place it, and the url is visited.
C14_Witness ==
    /\ stack # <<>> /\ Top.pc = "loop" /\ Top.links # <<>>
    /\ Head(Top.links) \in visited_urls
    /\ \E i \in DOMAIN visitLog :
          /\ visitLog[i].url = Head(Top.links)
          /\ visitLog[i].depth > Top.depth + 1

\* C15: the content signal of calculate_relevance is 0.5 for every keyword
\* that occurs in the content plus 0.3 for every ordered pair of distinct
\* keywords that both occur in the content with first offsets less than 50
\* apart; a keyword that does not occur adds nothing to the proximity bonus.
\* Stated of the documents of a chat call whose scoring completed.
C15_ProximityNeedsBoth ==
    (lastChat.status = "done" /\ lastChat.response.kind \in {"digest", "low_relevance"}) =>
        \A d \in DOMAIN lastChat.passed :
            LET content == Lower(lastChat.passed[d].text_content)
                keywords == preprocess_query(lastChat.query)
                present == { k \in DOMAIN keywords : IsSubstr(keywords[k], content) }
                near == { pair \in present \X present :
                            /\ keywords[pair[1]] # keywords[pair[2]]
                            /\ Abs(Find(keywords[pair[1]], content)
                                   - Find(keywords[pair[2]], content)) < 50 }
            IN  ContentScore(lastChat.passed[d], keywords)
                    = 5 * Cardinality(present) + 3 * Cardinality(near)

\* C16: when summarize_results is reached through chat(q), the context signal
\* of a document is computed from the queries of prior turns only: the
\* keywords of q itself add nothing to it, and on the first turn of a session
\* it is 0. Stated of the documents of a chat call whose scoring completed;
\* context_history is the list calculate_relevance read.
C16_ContextFromPriorTurns ==
    (lastChat.status = "done" /\ lastChat.response.kind \in {"digest", "low_relevance"}) =>
        \A d \in DOMAIN lastChat.passed :
            LET prior == SubSeq(context_history, 1, Len(context_history) - 1) IN
            /\ ContextScore(lastChat.passed[d], context_history)
                  = ContextScore(lastChat.passed[d], prior)
            /\ Len(asked) = 1 => ContextScore(lastChat.passed[d], context_history) = 0

\* C17: a url rejected only for depth > max_depth is not added to
\* visited_urls (the visited urls are exactly the processed ones, whatever
\* was rejected); a url processed at depth = max_depth is marked visited and
\* none of its links is followed (every processed page other than the seed
\* has a parent processed one level up, below max_depth, and every rejected
\* call is one level below a page at max_depth). That coverage then depends
\* on link order is what the witness shows.
C17_DepthRejectionLeavesUnvisited ==
    /\ visited_urls = { visitLog[i].url : i \in DOMAIN visitLog }
    /\ \A s \in skipped : s[2] = max_depth + 1
    /\ \A i \in DOMAIN visitLog :
          /\ visitLog[i].depth <= max_depth
          /\ visitLog[i].parent # NoParent =>
                \E p \in DOMAIN visitLog :
                    /\ p < i
                    /\ visitLog[p].url = visitLog[i].parent
                    /\ visitLog[p].depth = visitLog[i].depth - 1
                    /\ visitLog[p].depth < max_depth

\* C17 witness: a crawl is over, no page failed, and a url that a path of at
\* most max_depth links joins to the seed was rejected and never visited.
C17_Witness ==
    /\ phase = "done"
    /\ failed = {}
    /\ \E u \in DOMAIN hops :
          /\ hops[u] <= max_depth
          /\ u \notin visited_urls
          /\ \E s \in skipped : s[1] = u

\* C18: in calculate_relevance a keyword that is a substring of some
\* whitespace-separated word of the title (resp. description) is a substring
\* of the whole title, so the partial-match branches are never taken: every
\* keyword adds exactly 3.0 or 0 for the title and exactly 1.5 or 0 for the
\* description, never 2.0 or 1.0.
C18_PartialBranchesDead ==
    lastCall.method = "calculate_relevance" =>
        LET keywords == lastCall.keywords
            title == Lower(lastCall.doc.title)
            desc == Lower(lastCall.doc.meta_description)
            InWord(k, text) == \E w \in DOMAIN Split(text) : IsSubstr(k, Split(text)[w])
        IN  /\ \A i \in DOMAIN keywords :
                  /\ InWord(keywords[i], title) => IsSubstr(keywords[i], title)
                  /\ InWord(keywords[i], desc) => IsSubstr(keywords[i], desc)
            /\ lastCall.title_score
                  = 30 * Cardinality({ i \in DOMAIN keywords : IsSubstr(keywords[i], title) })
            /\ lastCall.description_score
                  = 15 * Cardinality({ i \in DOMAIN keywords : IsSubstr(keywords[i], desc) })

\* C18 witness: a title of two words, one keyword that is part of a word and
\* not the whole title, another that is in no word; the scores are 3.0 and 1.5.
C18_Witness ==
    /\ lastCall.method = "calculate_relevance"
    /\ Len(Split(lastCall.doc.title)) = 2
    /\ Len(lastCall.keywords) = 2
    /\ IsSubstr(lastCall.keywords[1], Split(Lower(lastCall.doc.title))[2])
    /\ lastCall.keywords[1] # Lower(lastCall.doc.title)
    /\ ~IsSubstr(lastCall.keywords[2], Lower(lastCall.doc.title))
    /\ lastCall.title_score = 30
    /\ lastCall.description_score = 15

====
